---- MODULE Spec2Model ----
(***************************************************************************)
(* Hybrid similarity deduplication and group synthesis of NoticiasDotCom.  *)
(*                                                                         *)
(*   services/deduplication_service.py     DeduplicationService            *)
(*   services/article_synthesis_service.py ArticleSynthesisService         *)
(*                                                                         *)
(* Texts are sequences of one-character strings, so that truthiness,       *)
(* slicing, splitting and tokenising are computed as Python computes them. *)
(* Similarities are integers scaled by 100, blend weights by 10, hybrid    *)
(* similarities, distances and thresholds by 1000.                         *)
(***************************************************************************)
EXTENDS Integers, Sequences, FiniteSets, TLC

VARIABLES
    \* ---- DeduplicationService: the instance and one group_similar_articles call
    similarity_threshold,   \* self.similarity_threshold (x1000)
    bm25_weight,            \* self.bm25_weight (x10)
    last_embeddings,        \* self.last_embeddings
    last_urls,              \* self.last_urls
    last_cluster_labels,    \* self.last_cluster_labels
    dpc,                    \* where the call is: idle, embedding, returned, raised
    url_contents,           \* the call's argument: <<url, content>> pairs in dict order
    embed_requests,         \* the embedding requests issued, each with its outcome
    bm25_calls,             \* the text lists handed to _compute_bm25_similarity
    linkage_calls,          \* how many times linkage() ran
    semantic_similarity,    \* the call's locals of the same names
    bm25_similarity,
    hybrid_similarity,
    groups,                 \* the returned group list (None: nothing returned)
    umap,                   \* what the latest get_umap_visualization_data call
                            \* did (None: no such call)
    \* ---- ArticleSynthesisService: one synthesize_all_groups run
    max_concurrent,         \* self.max_concurrent
    spc,                    \* idle, gathering, returned
    groups_arg,             \* the argument groups
    url_to_content,         \* the argument url_to_content, a function of its keys
    sem_value,              \* asyncio.Semaphore._value
    sem_waiters,            \* asyncio.Semaphore._waiters, first in first out
    task,                   \* each task's position
    gen_calls,              \* per group, the generation calls it issued, each
                            \* with its outcome once it has one
    results,                \* per group, what its task returned
    progress,               \* the values handed to progress_callback, in order
    completed_at,           \* per progress value, how many groups had finished
    output                  \* what synthesize_all_groups returned

dedupVars == <<similarity_threshold, bm25_weight, last_embeddings, last_urls,
               last_cluster_labels, dpc, url_contents, embed_requests, bm25_calls,
               linkage_calls, semantic_similarity, bm25_similarity,
               hybrid_similarity, groups, umap>>

synthVars == <<max_concurrent, spc, groups_arg, url_to_content, sem_value,
               sem_waiters, task, gen_calls, results, progress, completed_at,
               output>>

vars == <<dedupVars, synthVars>>

-----------------------------------------------------------------------------
(* Bounds of the model. *)

\* the full runs of group_similar_articles on one instance
MaxRuns == 2

\* documents in one url_contents argument
MaxDocs == 3

\* groups in one synthesize_all_groups argument
MaxGroups == 3

\* largest max_concurrent an instance is constructed with
MaxSlots == 2

-----------------------------------------------------------------------------
(* Python values *)

\* An optional value is a sequence of at most one element: None, or Some(x).
None == <<>>
Some(x) == <<x>>
The(o) == o[1]

Min(a, b) == IF a <= b THEN a ELSE b
Max(a, b) == IF a >= b THEN a ELSE b

\* s[:n]
Slice(s, n) == SubSeq(s, 1, Min(n, Len(s)))

\* s[n:]  (n counted from 0, as in Python)
Tail_from(s, n) == SubSeq(s, n + 1, Len(s))

Range(s) == {s[i] : i \in 1..Len(s)}

\* [f(x) for x in s]
SeqMap(f(_), s) == [i \in 1..Len(s) |-> f(s[i])]

\* bool(s) of a str or a list
Truthy(s) == Len(s) > 0

-----------------------------------------------------------------------------
(* Characters: the classes re and str use. *)

\* the letters and digits of the texts that are lower-cased and tokenised
UpperCase == {"A", "B", "C", "D"}
LowerCase == {"a", "b", "c", "d"}
Digits == {"0", "1", "2", "3", "4", "5", "6", "7", "8", "9"}
WhiteSpace == {" ", "\n", "\t"}

\* \w
IsWordChar(c) == c \in UpperCase \cup LowerCase \cup Digits \cup {"_"}
\* \s
IsSpaceChar(c) == c \in WhiteSpace

LowerOf == [c \in UpperCase |->
              CASE c = "A" -> "a" [] c = "B" -> "b" [] c = "C" -> "c"
                [] c = "D" -> "d"]

\* str.lower()
lower(text) == [i \in 1..Len(text) |->
                  IF text[i] \in UpperCase THEN LowerOf[text[i]] ELSE text[i]]

-----------------------------------------------------------------------------
(* str methods *)

\* s.startswith(p)
startswith(s, p) == Len(s) >= Len(p) /\ SubSeq(s, 1, Len(p)) = p

\* In find, replace, split and strip the string is bound by a one-element set,
\* so that it is evaluated once.

\* s.find(p) from position i on, 1-based; 0 when p does not occur
find(s, p, i) ==
    LET first_hit(str) ==
            LET hits == {k \in i..(Len(str) - Len(p) + 1) :
                            SubSeq(str, k, k + Len(p) - 1) = p}
            IN  IF hits = {} THEN 0 ELSE CHOOSE k \in hits : \A l \in hits : k <= l
    IN  CHOOSE k \in {first_hit(str) : str \in {s}} : TRUE

\* p in s
contains(s, p) == find(s, p, 1) # 0

\* s.replace(old, new)
RECURSIVE replace(_, _, _)
replace(s, old, new) ==
    LET replaced(str, k) ==
            IF k = 0 THEN str
            ELSE SubSeq(str, 1, k - 1) \o new
                   \o replace(SubSeq(str, k + Len(old), Len(str)), old, new)
    IN  CHOOSE t \in {replaced(str, find(str, old, 1)) : str \in {s}} : TRUE

\* s.split(sep, maxsplit); maxsplit -1: no limit
RECURSIVE split(_, _, _)
split(s, sep, maxsplit) ==
    LET parts(str, k) ==
            IF k = 0 \/ maxsplit = 0 THEN <<str>>
            ELSE <<SubSeq(str, 1, k - 1)>>
                   \o split(SubSeq(str, k + Len(sep), Len(str)), sep, maxsplit - 1)
    IN  CHOOSE t \in {parts(str, find(str, sep, 1)) : str \in {s}} : TRUE

\* s.strip()
strip(s) ==
    LET stripped(str) ==
            LET keep == {i \in 1..Len(str) : ~IsSpaceChar(str[i])}
            IN  IF keep = {} THEN <<>>
                ELSE SubSeq(str, CHOOSE i \in keep : \A j \in keep : i <= j,
                                 CHOOSE i \in keep : \A j \in keep : i >= j)
    IN  CHOOSE t \in {stripped(str) : str \in {s}} : TRUE

\* sep.join(parts)
RECURSIVE join(_, _)
join(parts, sep) ==
    IF Len(parts) = 0 THEN <<>>
    ELSE IF Len(parts) = 1 THEN parts[1]
    ELSE parts[1] \o sep \o join(Tail(parts), sep)

-----------------------------------------------------------------------------
(* ArticleSynthesisService: the records *)

\* "Artículo"
DefaultSingleTitle ==
    <<"A", "r", "t", "í", "c", "u", "l", "o">>
\* "Artículo Sintetizado"
DefaultTitle ==
    <<"A", "r", "t", "í", "c", "u", "l", "o", " ", "S", "i", "n", "t", "e",
      "t", "i", "z", "a", "d", "o">>
\* "Error al generar artículo"
ErrorTitle ==
    <<"E", "r", "r", "o", "r", " ", "a", "l", " ", "g", "e", "n", "e", "r",
      "a", "r", " ", "a", "r", "t", "í", "c", "u", "l", "o">>
\* "No se pudo generar el artículo: "
ErrorPrefix ==
    <<"N", "o", " ", "s", "e", " ", "p", "u", "d", "o", " ", "g", "e", "n",
      "e", "r", "a", "r", " ", "e", "l", " ", "a", "r", "t", "í", "c", "u",
      "l", "o", ":", " ">>
\* "Sin contenido"
NoContentTitle ==
    <<"S", "i", "n", " ", "c", "o", "n", "t", "e", "n", "i", "d", "o">>
\* "No se pudo generar el artículo."
NoContentBody ==
    <<"N", "o", " ", "s", "e", " ", "p", "u", "d", "o", " ", "g", "e", "n",
      "e", "r", "a", "r", " ", "e", "l", " ", "a", "r", "t", "í", "c", "u",
      "l", "o", ".">>
\* "Título:"
TituloMarker ==
    <<"T", "í", "t", "u", "l", "o", ":">>
\* "**Resumen:**"
ResumenMarker ==
    <<"*", "*", "R", "e", "s", "u", "m", "e", "n", ":", "*", "*">>
\* "**Summary:**"
SummaryMarker ==
    <<"*", "*", "S", "u", "m", "m", "a", "r", "y", ":", "*", "*">>

\* len(line) > 10, title[:200], summary[:300]
MinTitleLine == 10
MaxTitle == 200
MaxSummary == 300

\* the first line that, stripped, is non-empty and longer than 10 characters
RECURSIVE first_title_line(_, _)
first_title_line(lines, i) ==
    IF i > Len(lines) THEN None
    ELSE IF Truthy(strip(lines[i])) /\ Len(strip(lines[i])) > MinTitleLine
         THEN Some(strip(lines[i]))
    ELSE first_title_line(lines, i + 1)

\* _extract_from_single_article
extract_from_single_article(content) ==
    LET lines == split(content, <<"\n">>, -1)
        found == first_title_line(lines, 1)
        title == IF found = None THEN DefaultSingleTitle
                 ELSE strip(replace(replace(The(found), TituloMarker, <<>>),
                                    <<"#">>, <<>>))
    IN  [title |-> Slice(title, MaxTitle),
         content |-> content,
         summary |-> title]

\* the index of the first line that, stripped, starts with '#' and not with '##'
RECURSIVE heading_index(_, _)
heading_index(lines, i) ==
    IF i > Len(lines) THEN 0
    ELSE IF /\ startswith(strip(lines[i]), <<"#">>)
            /\ ~startswith(strip(lines[i]), <<"#", "#">>)
         THEN i
    ELSE heading_index(lines, i + 1)

\* the index of the first line holding a summary marker
RECURSIVE marker_index(_, _)
marker_index(lines, i) ==
    IF i > Len(lines) THEN 0
    ELSE IF contains(lines[i], ResumenMarker) \/ contains(lines[i], SummaryMarker)
         THEN i
    ELSE marker_index(lines, i + 1)

\* _parse_generated_article
parse_generated_article(article_text) ==
    LET lines == split(article_text, <<"\n">>, -1)
        h == heading_index(lines, 1)
        m == marker_index(lines, 1)
        title == IF h = 0 THEN DefaultTitle
                 ELSE strip(replace(strip(lines[h]), <<"#">>, <<>>))
        content == IF h = 0 THEN article_text
                   ELSE strip(join(Tail_from(lines, h), <<"\n">>))
        parts == split(lines[m], <<"*", "*">>, 2)
        summary == IF m = 0 THEN <<>> ELSE strip(parts[Len(parts)])
    IN  [title |-> Slice(title, MaxTitle),
         content |-> content,
         summary |-> IF Truthy(summary) THEN Slice(summary, MaxSummary) ELSE title]

\* the failure swallowed: an untitled, empty article
error_article_swallowed(e) ==
    [title |-> DefaultTitle, content |-> <<>>, summary |-> <<>>]

\* the dict of the except branch of synthesize_article_async
error_article(e) ==
    [title |-> ErrorTitle, content |-> ErrorPrefix \o e, summary |-> <<>>]

\* the record naming only the sources whose text was sent for synthesis
with_group_of_texts(article, group) ==
    [title |-> article.title,
     content |-> article.content,
     summary |-> article.summary,
     group_size |-> Len(group),
     source_urls |-> SelectSeq(group,
         LAMBDA u : u \in DOMAIN url_to_content /\ Truthy(url_to_content[u]))]

\* article['group_size'] = len(group); article['source_urls'] = group
with_group(article, group) ==
    [title |-> article.title,
     content |-> article.content,
     summary |-> article.summary,
     group_size |-> Len(group),
     source_urls |-> group]

\* _build_synthesis_prompt: the count it announces and the labelled sources,
\* "**FUENTE i:**\n" followed by the content, in order
build_synthesis_prompt(articles_content) ==
    [count |-> Len(articles_content),
     sources |-> [i \in 1..Len(articles_content) |->
                    [label |-> i, content |-> articles_content[i]]]]

-----------------------------------------------------------------------------
(* DeduplicationService: the lexical estimator *)

\* _preprocess_text: lower(), then re.sub(r'[^\w\s]', ' ', text)
preprocess_text(text) ==
    LET t == lower(text)
    IN  [i \in 1..Len(t) |->
           IF IsWordChar(t[i]) \/ IsSpaceChar(t[i]) THEN t[i] ELSE " "]

\* TfidfVectorizer's default token_pattern (?u)\b\w\w+\b: the maximal runs of
\* word characters that are at least two characters long
RECURSIVE TokenScan(_, _, _, _)
TokenScan(t, i, cur, acc) ==
    LET closed == IF Len(cur) >= 2 THEN Append(acc, cur) ELSE acc
    IN  IF i > Len(t) THEN closed
        ELSE IF IsWordChar(t[i]) THEN TokenScan(t, i + 1, Append(cur, t[i]), acc)
        ELSE TokenScan(t, i + 1, <<>>, closed)

Tokenize(text) == TokenScan(text, 1, <<>>, <<>>)

\* ngram_range=(1, 2): the tokens, then each two neighbouring tokens joined by a space
TermSeq(text) ==
    LET tok == Tokenize(text)
    IN  IF Len(tok) < 2 THEN tok
        ELSE tok \o [k \in 1..(Len(tok) - 1) |-> tok[k] \o <<" ">> \o tok[k + 1]]

\* how often a term occurs in one document's term sequence
TermCount(term, ts) == Cardinality({k \in 1..Len(ts) : ts[k] = term})

\* in how many documents a term occurs
DocFreq(term, docs) == Cardinality({i \in 1..Len(docs) : term \in Range(docs[i])})

RECURSIVE TotalCount(_, _, _)
TotalCount(term, docs, i) ==
    IF i = 0 THEN 0 ELSE TermCount(term, docs[i]) + TotalCount(term, docs, i - 1)

\* max_features=500, min_df=1, max_df=0.8
MaxFeatures == 500
MinDf == 1
MaxDfTenths == 8

\* no upper limit on the document frequency
DfKept_uncapped(docs) ==
    {t \in UNION {Range(docs[i]) : i \in 1..Len(docs)} : DocFreq(t, docs) >= MinDf}

\* the terms whose document frequency is within [min_df, max_df * n_docs]
DfKept(docs) ==
    {t \in UNION {Range(docs[i]) : i \in 1..Len(docs)} :
        /\ DocFreq(t, docs) >= MinDf
        /\ 10 * DocFreq(t, docs) <= MaxDfTenths * Len(docs)}

\* ... of which the max_features most frequent ones are kept; docs are the
\* documents' term sequences
Vocabulary(docs) ==
    LET kept == DfKept(docs)
    IN  IF Cardinality(kept) <= MaxFeatures THEN kept
        ELSE CHOOSE S \in SUBSET kept :
               /\ Cardinality(S) = MaxFeatures
               /\ \A a \in S, b \in kept \ S :
                    TotalCount(a, docs, Len(docs)) >= TotalCount(b, docs, Len(docs))

\* processed_texts = [self._preprocess_text(t) for t in texts], analysed
TermSeqs(texts) == [i \in 1..Len(texts) |-> TermSeq(preprocess_text(texts[i]))]

Orthogonal(v, w) == \A t \in DOMAIN v : v[t] = 0 \/ w[t] = 0
Parallel(v, w) == \A s, t \in DOMAIN v : v[s] * w[t] = v[t] * w[s]

\* cosine_similarity(tfidf_matrix)[i, j] is 0 for orthogonal rows (a zero row
\* included), 1 for parallel rows, and strictly between otherwise; the idf
\* factor of a term is the same in every row, so it changes neither case.
\* The value in between is a real number this model draws from LexPartialLevels.
LexPartialLevels == {25, 75}

Pairs(n) == {p \in (1..n) \X (1..n) : p[1] < p[2]}

\* for every two documents, which of the three cases their rows are in
LexKinds(docs, vocabulary) ==
    LET vec == [i \in 1..Len(docs) |->
                  [t \in vocabulary |-> TermCount(t, docs[i])]]
    IN  [i \in 1..Len(docs) |-> [j \in 1..Len(docs) |->
            IF Orthogonal(vec[i], vec[j]) THEN "zero"
            ELSE IF Parallel(vec[i], vec[j]) THEN "one"
            ELSE "partial"]]

\* _compute_bm25_similarity: what it can return, or the ValueError that
\* fit_transform raises when no term is left ("empty vocabulary", "After
\* pruning, no terms remain")
ValueError == [raises |-> TRUE]
Returns(m) == [raises |-> FALSE, value |-> m]

compute_bm25_similarity(texts) ==
    LET docs == TermSeqs(texts)
        vocabulary == Vocabulary(docs)
        kinds == LexKinds(docs, vocabulary)
        partials == {p \in Pairs(Len(texts)) : kinds[p[1]][p[2]] = "partial"}
    IN  IF vocabulary = {} THEN {ValueError}
        ELSE {Returns([i \in 1..Len(texts) |-> [j \in 1..Len(texts) |->
                 IF kinds[i][j] = "zero" THEN 0
                 ELSE IF kinds[i][j] = "one" THEN 100
                 ELSE value[<<Min(i, j), Max(i, j)>>]]])
              : value \in [partials -> LexPartialLevels]}

-----------------------------------------------------------------------------
(* DeduplicationService: the semantic estimator *)

\* text[:8000]
EmbedMaxChars == 8000

\* truncated_texts = [text[:8000] for text in texts]
truncated_texts(texts) == [i \in 1..Len(texts) |-> Slice(texts[i], EmbedMaxChars)]

\* What the embedding service answers: one vector per input, known to the model
\* by the cosine of every two of them (x100).
SemLevels == {0, 60, 100}

EmbeddingResponses(n) ==
    {[vectors |-> n, cos |-> f] : f \in [Pairs(n) -> SemLevels]}

\* cosine_similarity(embeddings)
cosine_similarity(embeddings) ==
    [i \in 1..embeddings.vectors |-> [j \in 1..embeddings.vectors |->
        IF i = j THEN 100 ELSE embeddings.cos[<<Min(i, j), Max(i, j)>>]]]

-----------------------------------------------------------------------------
(* DeduplicationService: the adaptive hybrid combiner *)

\* urlparse(url).netloc
netloc(url) == url.netloc

problematic_domains == {"boadilladigital.es", "soydemadrid.com"}

\* adaptive_weights[i, j] = 0.6 (x10)
AmbiguousWeight == 6

\* the elevated weight for any two documents of problematic domains
adaptive_weights_any_ambiguous(urls, w_base) ==
    [i \in 1..Len(urls) |-> [j \in 1..Len(urls) |->
        IF /\ i # j
           /\ netloc(urls[i]) \in problematic_domains
           /\ netloc(urls[j]) \in problematic_domains
        THEN AmbiguousWeight
        ELSE w_base]]

\* the elevated weight written to [i, j] only, its mirror [j, i] forgotten
adaptive_weights_upper(urls, w_base) ==
    [i \in 1..Len(urls) |-> [j \in 1..Len(urls) |->
        IF /\ i < j
           /\ netloc(urls[i]) = netloc(urls[j])
           /\ netloc(urls[i]) \in problematic_domains
        THEN AmbiguousWeight
        ELSE w_base]]

adaptive_weights(urls, w_base) ==
    [i \in 1..Len(urls) |-> [j \in 1..Len(urls) |->
        IF /\ i # j
           /\ netloc(urls[i]) = netloc(urls[j])
           /\ netloc(urls[i]) \in problematic_domains
        THEN AmbiguousWeight
        ELSE w_base]]

\* the blend with the base weight in every cell
hybrid_base_weight(urls, w_base, bm25, semantic) ==
    [i \in 1..Len(urls) |-> [j \in 1..Len(urls) |->
        w_base * bm25[i][j] + (10 - w_base) * semantic[i][j]]]

\* hybrid_similarity[i, j] = w * bm25[i, j] + (1 - w) * semantic[i, j]   (x1000)
hybrid(urls, w_base, bm25, semantic) ==
    [i \in 1..Len(urls) |-> [j \in 1..Len(urls) |->
        LET w == adaptive_weights(urls, w_base)[i][j]
        IN  w * bm25[i][j] + (10 - w) * semantic[i][j]]]

-----------------------------------------------------------------------------
(* DeduplicationService: the hierarchical grouping engine *)

\* 1 - hybrid_similarity, the diagonal filled with 0, clipped to [0, 2]   (x1000)
distance_matrix(h) ==
    [i \in DOMAIN h |-> [j \in DOMAIN h |->
        IF i = j THEN 0 ELSE Max(0, Min(2000, 1000 - h[i][j]))]]

RECURSIVE SumPairs(_, _)
SumPairs(d, P) ==
    IF P = {} THEN 0
    ELSE LET p == CHOOSE q \in P : TRUE
         IN  d[p[1]][p[2]] + SumPairs(d, P \ {p})

MinOf(S) == CHOOSE x \in S : \A y \in S : x <= y

\* two clusters, the one with the lower first index first
ClusterPairs(C) == {p \in C \X C : MinOf(p[1]) < MinOf(p[2])}

\* average linkage: the mean distance over A x B, kept as sum and count
LinkSum(d, p) == SumPairs(d, p[1] \X p[2])

\* the sum of the distances taken for their mean
LinkCount_unaveraged(p) == 1

\* |A| * |B|
LinkCount(p) == Cardinality(p[1]) * Cardinality(p[2])

\* p merges before q: a smaller mean distance, and on a tie the lower indices
MergesBefore(d, p, q) ==
    LET lp == LinkSum(d, p) * LinkCount(q)
        lq == LinkSum(d, q) * LinkCount(p)
    IN  \/ lp < lq
        \/ /\ lp = lq
           /\ \/ MinOf(p[1]) < MinOf(q[1])
              \/ MinOf(p[1]) = MinOf(q[1]) /\ MinOf(p[2]) < MinOf(q[2])

\* the cut with its comparison turned round: the closest two clusters merge
\* when their mean distance is at least t
RECURSIVE fcluster_flipped(_, _, _)
fcluster_flipped(d, C, t) ==
    IF Cardinality(C) <= 1 THEN C
    ELSE LET p == CHOOSE q \in ClusterPairs(C) :
                    \A r \in ClusterPairs(C) \ {q} : MergesBefore(d, q, r)
         IN  IF LinkSum(d, p) >= t * LinkCount(p)
             THEN fcluster_flipped(d, (C \ {p[1], p[2]}) \cup {p[1] \cup p[2]}, t)
             ELSE C

\* linkage(condensed_distances, method='average') cut by
\* fcluster(linkage_matrix, t, criterion='distance'): the merges of mean
\* distance at most t, closest first
RECURSIVE fcluster(_, _, _)
fcluster(d, C, t) ==
    IF Cardinality(C) <= 1 THEN C
    ELSE LET p == CHOOSE q \in ClusterPairs(C) :
                    \A r \in ClusterPairs(C) \ {q} : MergesBefore(d, q, r)
         IN  IF LinkSum(d, p) <= t * LinkCount(p)
             THEN fcluster(d, (C \ {p[1], p[2]}) \cup {p[1] \cup p[2]}, t)
             ELSE C

\* the dendrogram cut at the similarity threshold itself, not at 1 - threshold
cluster_labels_by_similarity(h, threshold) ==
    fcluster(distance_matrix(h), {{i} : i \in DOMAIN h}, threshold)

\* the flat clusters of n documents
cluster_labels(h, threshold) ==
    fcluster(distance_matrix(h), {{i} : i \in DOMAIN h}, 1000 - threshold)

RECURSIVE SortedSeq(_)
SortedSeq(S) ==
    IF S = {} THEN <<>> ELSE <<MinOf(S)>> \o SortedSeq(S \ {MinOf(S)})

\* clusters = {}; for idx, label in enumerate(cluster_labels): ...;
\* groups = list(clusters.values()): the clusters in the order of their first
\* document, each in document order
groups_of(C, urls) ==
    LET firsts == SortedSeq({MinOf(A) : A \in C})
    IN  [g \in 1..Len(firsts) |->
           LET A == CHOOSE B \in C : firsts[g] \in B
               members == SortedSeq(A)
           IN  [k \in 1..Len(members) |-> urls[members[k]]]]

\* every document labelled with its own position
display_labels_by_document(gs, urls) == [i \in 1..Len(urls) |-> i]

\* display_labels: for each url, the 1-based position of its group
display_labels(gs, urls) ==
    [i \in 1..Len(urls) |->
        MinOf({g \in 1..Len(gs) : urls[i] \in Range(gs[g])})]

-----------------------------------------------------------------------------
(* DeduplicationService.group_similar_articles *)

\* The urls and the texts the calls are made with.
Url(host, n) == [scheme |-> "https", netloc |-> host, path |-> n]

UrlPool == <<Url("boadilladigital.es", 1), Url("boadilladigital.es", 2),
             Url("www.soydemadrid.com", 1), Url("teleboadilla.com", 1),
             Url("soydemadrid.com", 1)>>

DocUrls == {UrlPool[i] : i \in 1..Min(MaxDocs, Len(UrlPool))}

DocTexts == {<<>>,                               \* no text extracted
             <<"a", "b">>,                       \* "ab"
             <<"c", "d">>,                       \* "cd"
             <<"A", "b", ",", "c", "d">>,        \* "Ab,cd"
             <<"!">>}                            \* text without any token

\* a dict {url: content}: its items in insertion order, the keys distinct
UrlContents(n) ==
    UNION {{uc \in [1..k -> DocUrls \X DocTexts] :
              \A i, j \in 1..k : i # j => uc[i][1] # uc[j][1]} : k \in 0..n}

\* __init__(similarity_threshold, bm25_weight): the default 0.85 and the
\* dashboard's 0.75 (x1000); the default and the dashboard's weight 0.3 (x10)
Thresholds == {750, 850}
BaseWeights == {3}

\* valid_pairs without its filter
valid_pairs_unfiltered(uc) == uc

\* valid_pairs = [(url, content) for url, content in url_contents.items() if content]
valid_pairs(uc) == SelectSeq(uc, LAMBDA p : Truthy(p[2]))

urls_of(pairs) == [i \in 1..Len(pairs) |-> pairs[i][1]]
contents_of(pairs) == [i \in 1..Len(pairs) |-> pairs[i][2]]

\* return [[url] for url in url_contents.keys()]
no_content_groups(uc) == [i \in 1..Len(uc) |-> <<uc[i][1]>>]

\* the single valid document given no group
single_valid_dropped(pairs) == <<>>

\* return [[valid_pairs[0][0]]]
single_valid_groups(pairs) == << <<pairs[1][1]>> >>

\* lines 110-127: the short circuits, or the embedding request
group_similar_articles(uc) ==
    /\ dpc = "idle"
    /\ url_contents' = uc
    /\ IF ~Truthy(uc)
       THEN /\ groups' = Some(<<>>)
            /\ dpc' = "returned"
            /\ UNCHANGED embed_requests
       ELSE IF ~Truthy(valid_pairs(uc))
       THEN /\ groups' = Some(no_content_groups(uc))
            /\ dpc' = "returned"
            /\ UNCHANGED embed_requests
       ELSE IF Len(valid_pairs(uc)) = 1
       THEN /\ groups' = Some(single_valid_groups(valid_pairs(uc)))
            /\ dpc' = "returned"
            /\ UNCHANGED embed_requests
       ELSE /\ embed_requests' = Append(embed_requests,
                [model |-> "text-embedding-3-small",
                 input |-> truncated_texts(contents_of(valid_pairs(uc))),
                 outcome |-> "pending"])
            /\ dpc' = "embedding"
            /\ UNCHANGED groups
    /\ UNCHANGED <<similarity_threshold, bm25_weight, umap, last_embeddings, last_urls,
                   last_cluster_labels, bm25_calls, linkage_calls,
                   semantic_similarity, bm25_similarity, hybrid_similarity>>
    /\ UNCHANGED synthVars

\* the embedding call's error caught, and every document grouped alone
embeddings_create_raises_caught ==
    /\ dpc = "embedding"
    /\ embed_requests' = [embed_requests EXCEPT ![Len(embed_requests)].outcome = "error"]
    /\ groups' = Some(no_content_groups(url_contents))
    /\ dpc' = "returned"
    /\ UNCHANGED <<similarity_threshold, bm25_weight, umap, last_embeddings, last_urls,
                   last_cluster_labels, url_contents, bm25_calls, linkage_calls,
                   semantic_similarity, bm25_similarity, hybrid_similarity>>
    /\ UNCHANGED synthVars

\* line 88: the embedding call raises; nothing catches it
embeddings_create_raises ==
    /\ dpc = "embedding"
    /\ embed_requests' = [embed_requests EXCEPT ![Len(embed_requests)].outcome = "error"]
    /\ dpc' = "raised"
    /\ UNCHANGED <<similarity_threshold, bm25_weight, umap, last_embeddings, last_urls,
                   last_cluster_labels, url_contents, bm25_calls, linkage_calls,
                   semantic_similarity, bm25_similarity, hybrid_similarity, groups>>
    /\ UNCHANGED synthVars

\* the embeddings and the urls saved as soon as the embeddings are there,
\* before the lexical estimator runs
embeddings_create_returns_saving_early(embeddings, bm25) ==
    LET urls == urls_of(valid_pairs(url_contents))
        contents == contents_of(valid_pairs(url_contents))
        semantic == cosine_similarity(embeddings)
        h == hybrid(urls, bm25_weight, bm25.value, semantic)
        gs == groups_of(cluster_labels(h, similarity_threshold), urls)
    IN  /\ dpc = "embedding"
        /\ embed_requests' = [embed_requests EXCEPT ![Len(embed_requests)].outcome = "ok"]
        /\ semantic_similarity' = Some(semantic)
        /\ bm25_calls' = Append(bm25_calls, contents)
        /\ IF bm25.raises
           THEN /\ dpc' = "raised"
                /\ last_embeddings' = Some(embeddings)
                /\ last_urls' = Some(urls)
                /\ UNCHANGED <<last_cluster_labels, linkage_calls,
                               bm25_similarity, hybrid_similarity, groups>>
           ELSE /\ bm25_similarity' = Some(bm25.value)
                /\ hybrid_similarity' = Some(h)
                /\ last_embeddings' = Some(embeddings)
                /\ last_urls' = Some(urls)
                /\ linkage_calls' = linkage_calls + 1
                /\ groups' = Some(gs)
                /\ last_cluster_labels' = Some(display_labels(gs, urls))
                /\ dpc' = "returned"
        /\ UNCHANGED <<similarity_threshold, bm25_weight, umap, url_contents>>
        /\ UNCHANGED synthVars

\* lines 94-221, the lexical estimator raising at line 132 or not
embeddings_create_returns(embeddings, bm25) ==
    LET urls == urls_of(valid_pairs(url_contents))
        contents == contents_of(valid_pairs(url_contents))
        semantic == cosine_similarity(embeddings)
        h == hybrid(urls, bm25_weight, bm25.value, semantic)
        gs == groups_of(cluster_labels(h, similarity_threshold), urls)
    IN  /\ dpc = "embedding"
        /\ embed_requests' = [embed_requests EXCEPT ![Len(embed_requests)].outcome = "ok"]
        /\ semantic_similarity' = Some(semantic)
        /\ bm25_calls' = Append(bm25_calls, contents)
        /\ IF bm25.raises
           THEN /\ dpc' = "raised"
                /\ UNCHANGED <<last_embeddings, last_urls, last_cluster_labels,
                               linkage_calls, bm25_similarity, hybrid_similarity,
                               groups>>
           ELSE /\ bm25_similarity' = Some(bm25.value)
                /\ hybrid_similarity' = Some(h)
                /\ last_embeddings' = Some(embeddings)
                /\ last_urls' = Some(urls)
                /\ linkage_calls' = linkage_calls + 1
                /\ groups' = Some(gs)
                /\ last_cluster_labels' = Some(display_labels(gs, urls))
                /\ dpc' = "returned"
        /\ UNCHANGED <<similarity_threshold, bm25_weight, umap, url_contents>>
        /\ UNCHANGED synthVars

\* the embedding service answers the pending request
embeddings_create_answers ==
    /\ dpc = "embedding"
    /\ LET contents == contents_of(valid_pairs(url_contents))
           lexical == compute_bm25_similarity(contents)
       IN  \E embeddings \in EmbeddingResponses(Len(contents)) :
             \E bm25 \in lexical :
                embeddings_create_returns(embeddings, bm25)

SynthIdle ==
    /\ max_concurrent = 10
    /\ spc = "idle"
    /\ groups_arg = <<>>
    /\ url_to_content = <<>>
    /\ sem_value = 0
    /\ sem_waiters = <<>>
    /\ task = <<>>
    /\ gen_calls = <<>>
    /\ results = <<>>
    /\ progress = <<>>
    /\ completed_at = <<>>
    /\ output = None

\* DeduplicationService.__init__
DedupInit ==
    /\ similarity_threshold \in Thresholds
    /\ bm25_weight \in BaseWeights
    /\ last_embeddings = None
    /\ last_urls = None
    /\ last_cluster_labels = None
    /\ dpc = "idle"
    /\ url_contents = <<>>
    /\ embed_requests = <<>>
    /\ bm25_calls = <<>>
    /\ linkage_calls = 0
    /\ semantic_similarity = None
    /\ bm25_similarity = None
    /\ hybrid_similarity = None
    /\ groups = None
    /\ umap = None

Init == DedupInit /\ SynthIdle

Next ==
    \/ \E uc \in UrlContents(MaxDocs) : group_similar_articles(uc)
    \/ embeddings_create_raises
    \/ embeddings_create_answers

\* one group_similar_articles call on a fresh DeduplicationService
Spec == Init /\ [][Next]_vars

\* The call as pages/dashboard.py makes it: url_contents holds only the urls
\* whose extracted content is truthy, and the service is constructed with
\* similarity_threshold=0.75 and bm25_weight=0.30. The urls are of the two
\* problematic domains and of a source that is none of them.
DashboardUrls == {Url("boadilladigital.es", 1), Url("boadilladigital.es", 2),
                  Url("soydemadrid.com", 1), Url("www.soydemadrid.com", 1)}

DashboardTexts == {<<"a", "b">>,                     \* "ab"
                   <<"A", "b", ",", "c", "d">>,      \* "Ab,cd"
                   <<"!">>}                          \* text without any token

DashboardUrlContents(n) ==
    UNION {{uc \in [1..k -> DashboardUrls \X DashboardTexts] :
              \A i, j \in 1..k : i # j => uc[i][1] # uc[j][1]} : k \in 0..n}

DashboardInit == DedupInit /\ similarity_threshold = 750 /\ SynthIdle

DashboardNext ==
    \/ \E uc \in DashboardUrlContents(MaxDocs) : group_similar_articles(uc)
    \/ embeddings_create_raises
    \/ embeddings_create_answers

DashboardSpec == DashboardInit /\ [][DashboardNext]_vars

-----------------------------------------------------------------------------
(* DeduplicationService: several calls on one instance *)

\* the 2-D coordinates UMAP gives, one row per embedding
fit_transform(embeddings) == [rows |-> embeddings.vectors, columns |-> 2]

\* without the test of last_embeddings: an instance never run gives no rows
get_umap_visualization_data_unguarded ==
    /\ dpc \in {"idle", "returned", "raised"}
    /\ umap' = Some(Returns([umap_coords |->
                                IF last_embeddings = None
                                THEN [rows |-> 0, columns |-> 2]
                                ELSE fit_transform(The(last_embeddings)),
                             cluster_labels |-> last_cluster_labels,
                             urls |-> last_urls]))
    /\ UNCHANGED <<similarity_threshold, bm25_weight, last_embeddings, last_urls,
                   last_cluster_labels, dpc, url_contents, embed_requests,
                   bm25_calls, linkage_calls, semantic_similarity,
                   bm25_similarity, hybrid_similarity, groups>>
    /\ UNCHANGED synthVars

\* get_umap_visualization_data, called between two group_similar_articles calls
get_umap_visualization_data ==
    /\ dpc \in {"idle", "returned", "raised"}
    /\ umap' = IF last_embeddings = None
               THEN Some(ValueError)
               ELSE Some(Returns([umap_coords |-> fit_transform(The(last_embeddings)),
                                  cluster_labels |-> last_cluster_labels,
                                  urls |-> last_urls]))
    /\ UNCHANGED <<similarity_threshold, bm25_weight, last_embeddings, last_urls,
                   last_cluster_labels, dpc, url_contents, embed_requests,
                   bm25_calls, linkage_calls, semantic_similarity,
                   bm25_similarity, hybrid_similarity, groups>>
    /\ UNCHANGED synthVars

\* The caller has the result or the exception of the call: the call's locals
\* and the requests it made are gone, the instance's fields stay, and the
\* instance can be called again.
call_is_over ==
    /\ dpc \in {"returned", "raised"}
    /\ linkage_calls < MaxRuns
    /\ dpc' = "idle"
    /\ url_contents' = <<>>
    /\ embed_requests' = <<>>
    /\ bm25_calls' = <<>>
    /\ semantic_similarity' = None
    /\ bm25_similarity' = None
    /\ hybrid_similarity' = None
    /\ groups' = None
    /\ umap' = None
    /\ UNCHANGED <<similarity_threshold, bm25_weight, last_embeddings, last_urls,
                   last_cluster_labels, linkage_calls>>
    /\ UNCHANGED synthVars

\* the documents of the calls: the pages of the soydemadrid source of
\* NEWS_SOURCES, each without text or with one of two texts
SessionUrls == [i \in 1..MaxDocs |-> Url("www.soydemadrid.com", i)]

SessionTexts == {<<>>, <<"a", "b">>, <<"c", "d">>}

SessionUrlContents ==
    UNION {{[i \in 1..k |-> <<SessionUrls[i], text[i]>>] :
              text \in [1..k -> SessionTexts]} : k \in 0..MaxDocs}

SessionNext ==
    \/ \E uc \in SessionUrlContents : group_similar_articles(uc)
    \/ embeddings_create_raises
    \/ embeddings_create_answers
    \/ get_umap_visualization_data
    \/ call_is_over

\* calls on the instance the dashboard constructs and keeps
SessionSpec == DashboardInit /\ [][SessionNext]_vars

-----------------------------------------------------------------------------
(* ArticleSynthesisService.synthesize_all_groups *)

\* The groups and the texts the runs are made with: group i holds one or two
\* urls of its own, and every url's text, when it has one, names the url.
SynthUrl(i, k) == Url("teleboadilla.com", 2 * (i - 1) + k)

DigitOf(n) == CASE n = 1 -> "1" [] n = 2 -> "2" [] n = 3 -> "3" [] n = 4 -> "4"
                [] n = 5 -> "5" [] n = 6 -> "6" [] n = 7 -> "7" [] n = 8 -> "8"
                [] OTHER -> "9"

\* "# Noticia <n>\ncuerpo": a first line longer than 10 characters
SynthText(url) ==
    <<"#", " ", "N", "o", "t", "i", "c", "i", "a", " ", DigitOf(url.path), "\n",
      "c", "u", "e", "r", "p", "o">>

GroupLists(n) ==
    UNION {{[i \in 1..k |-> [j \in 1..size[i] |-> SynthUrl(i, j)]] :
              size \in [1..k -> {1, 2}]} : k \in 0..n}

UrlsOf(gs) == UNION {Range(gs[i]) : i \in 1..Len(gs)}

\* a dict {url: content}: each url of the groups is absent, or has an empty
\* text, or has its text
ContentDicts(gs) ==
    {[u \in {v \in UrlsOf(gs) : kind[v] # "absent"} |->
        IF kind[u] = "empty" THEN <<>> ELSE SynthText(u)] :
     kind \in [UrlsOf(gs) -> {"absent", "empty", "text"}]}

\* What the generation service does with a request: it raises, or answers
\* with message.content None, or answers with a text.
GenErrors == {<<"C", "o", "n", "n", "e", "c", "t", "i", "o", "n", " ", "e", "r", "r", "o", "r", ".">>}

\* str(e) of the AttributeError that article_text.split raises on None
NoneTypeError ==
    <<"'", "N", "o", "n", "e", "T", "y", "p", "e", "'", " ", "h", "a", "s", " ", "n", "o", " ", "'", "s", "p", "l", "i", "t", "'">>

GenTexts == {<<"#", " ", "P", "l", "e", "n", "o", "\n", "*", "*", "R", "e", "s", "u", "m", "e", "n", ":", "*", "*", " ", "o", "k", "\n", "t", "e", "x", "t", "o">>,
             <<"s", "i", "n", " ", "e", "n", "c", "a", "b", "e", "z", "a", "d", "o">>}

GenOutcomes ==
    {[kind |-> "raises", e |-> e] : e \in GenErrors}
      \cup {[kind |-> "returns", content |-> None]}
      \cup {[kind |-> "returns", content |-> Some(t)] : t \in GenTexts}

Tasks == 1..Len(groups_arg)

\* a semaphore that never refuses
locked_never(value, waiters) == FALSE

\* asyncio.Semaphore.locked(): no slot left, or somebody is queued
locked(value, waiters) == value = 0 \/ Truthy(waiters)

\* the first queued task whose future is not done yet (0: there is none)
first_waiting(ts, waiters) ==
    LET idx == {k \in 1..Len(waiters) : ts[waiters[k]] = "waiting"}
    IN  IF idx = {} THEN 0 ELSE waiters[MinOf(idx)]

\* Semaphore._wake_up_next(): the slot goes to the first waiter not yet woken
wake_up_next(ts, value, waiters) ==
    LET w == first_waiting(ts, waiters)
    IN  IF w = 0 THEN [task |-> ts, value |-> value]
        ELSE [task |-> [ts EXCEPT ![w] = "woken"], value |-> value - 1]

\* a release that gives the slot back and wakes nobody
release_without_wake_up(ts, value, waiters) == [task |-> ts, value |-> value + 1]

\* Semaphore.release(): self._value += 1; self._wake_up_next()
release(ts, value, waiters) == wake_up_next(ts, value + 1, waiters)

\* lines 175-181: the texts of the group's urls that are keys of
\* url_to_content, the empty ones filtered out
articles_content(group) ==
    LET present == SelectSeq(group, LAMBDA url : url \in DOMAIN url_to_content)
    IN  SelectSeq([k \in 1..Len(present) |-> url_to_content[present[k]]], Truthy)

\* url_to_content.get(url, "")
get(url) == IF url \in DOMAIN url_to_content THEN url_to_content[url] ELSE <<>>

\* progress_callback((i + 1) / len(groups)), i counted from 0: the fraction
\* as numerator and denominator
progress_value(i) == <<i, Len(groups_arg)>>

\* the callback left out for a group without a record
finish_silent_when_omitted(i, article, ts, value, waiters) ==
    LET after == release([ts EXCEPT ![i] = "done"], value, waiters)
        called == article # None
    IN  /\ results' = [results EXCEPT ![i] = article]
        /\ progress' = IF called THEN Append(progress, progress_value(i))
                       ELSE progress
        /\ completed_at' =
              IF called
              THEN Append(completed_at,
                          Cardinality({j \in Tasks : ts[j] = "done"}) + 1)
              ELSE completed_at
        /\ task' = after.task
        /\ sem_value' = after.value
        /\ sem_waiters' = waiters

\* lines 223-226 and the end of `async with semaphore`: the callback, the
\* task's result, and the release of the slot
finish(i, article, ts, value, waiters) ==
    LET after == release([ts EXCEPT ![i] = "done"], value, waiters)
    IN  /\ results' = [results EXCEPT ![i] = article]
        /\ progress' = Append(progress, progress_value(i))
        /\ completed_at' = Append(completed_at,
                                  Cardinality({j \in Tasks : ts[j] = "done"}) + 1)
        /\ task' = after.task
        /\ sem_value' = after.value
        /\ sem_waiters' = waiters

\* the generation request of synthesize_article_async (lines 46-72)
generation_request(contents) ==
    [model |-> "gpt-4o-mini", prompt |-> build_synthesis_prompt(contents)]

\* a generation call for every group of two or more urls
needs_generation_by_size(group) == Len(group) > 1

\* whether synthesizing the group awaits a generation call (lines 174, 183, 42)
needs_generation(group) == Len(group) > 1 /\ Len(articles_content(group)) > 1

\* what _synthesize_group_async returns when it makes no generation call
\* (lines 174-197 and 34-43)
local_article(group) ==
    IF Len(group) > 1
    THEN IF Truthy(articles_content(group))
         THEN Some(with_group(
                  extract_from_single_article(articles_content(group)[1]), group))
         ELSE None
    ELSE IF Truthy(get(group[1]))
         THEN Some(with_group(extract_from_single_article(get(group[1])), group))
         ELSE None

\* the body of process_group_with_semaphore once the slot is held, up to the
\* generation call or, without one, to the end
synthesize_group(i, ts, value, waiters) ==
    IF needs_generation(groups_arg[i])
    THEN /\ gen_calls' = [gen_calls EXCEPT ![i] = Append(@,
                [request |-> generation_request(articles_content(groups_arg[i])),
                 outcome |-> None])]
         /\ task' = [ts EXCEPT ![i] = "calling"]
         /\ sem_value' = value
         /\ sem_waiters' = waiters
         /\ UNCHANGED <<results, progress, completed_at>>
    ELSE /\ UNCHANGED gen_calls
         /\ finish(i, local_article(groups_arg[i]), ts, value, waiters)

\* synthesize_all_groups_async, lines 216-234: the semaphore and the tasks
synthesize_all_groups(gs, contents) ==
    /\ spc = "idle"
    /\ spc' = "gathering"
    /\ groups_arg' = gs
    /\ url_to_content' = contents
    /\ sem_value' = max_concurrent
    /\ sem_waiters' = <<>>
    /\ task' = [i \in 1..Len(gs) |-> "created"]
    /\ gen_calls' = [i \in 1..Len(gs) |-> <<>>]
    /\ results' = [i \in 1..Len(gs) |-> None]
    /\ progress' = <<>>
    /\ completed_at' = <<>>
    /\ UNCHANGED <<max_concurrent, output>>
    /\ UNCHANGED dedupVars

\* process_group_with_semaphore starts, the tasks in the order gather made
\* them: Semaphore.acquire() takes a slot and the body runs, or the task
\* queues (line 220)
task_starts(i) ==
    /\ spc = "gathering"
    /\ task[i] = "created"
    /\ \A j \in 1..(i - 1) : task[j] # "created"
    /\ IF locked(sem_value, sem_waiters)
       THEN /\ sem_waiters' = Append(sem_waiters, i)
            /\ task' = [task EXCEPT ![i] = "waiting"]
            /\ UNCHANGED <<sem_value, gen_calls, results, progress, completed_at>>
       ELSE synthesize_group(i, task, sem_value - 1, sem_waiters)
    /\ UNCHANGED <<max_concurrent, spc, groups_arg, url_to_content, output>>
    /\ UNCHANGED dedupVars

\* a woken task leaves the queue with the slot it was handed, and its body runs
waiter_resumes(i) ==
    /\ spc = "gathering"
    /\ task[i] = "woken"
    /\ synthesize_group(i, task, sem_value,
                        SelectSeq(sem_waiters, LAMBDA w : w # i))
    /\ UNCHANGED <<max_concurrent, spc, groups_arg, url_to_content, output>>
    /\ UNCHANGED dedupVars

\* lines 48-83: what synthesize_article_async returns for an outcome of the call
generated_article(outcome) ==
    IF outcome.kind = "raises" THEN error_article(outcome.e)
    ELSE IF outcome.content = None THEN error_article(NoneTypeError)
    ELSE parse_generated_article(The(outcome.content))

\* the generation call of group i returns or raises; lines 74-83, 185-187,
\* 223-226
create_completes(i, outcome) ==
    /\ spc = "gathering"
    /\ task[i] = "calling"
    /\ finish(i, Some(with_group(generated_article(outcome), groups_arg[i])),
              task, sem_value, sem_waiters)
    /\ gen_calls' = [gen_calls EXCEPT ![i][Len(gen_calls[i])].outcome = Some(outcome)]
    /\ UNCHANGED <<max_concurrent, spc, groups_arg, url_to_content, output>>
    /\ UNCHANGED dedupVars

\* the records in the order their groups completed
synthesized_articles_as_completed(rs) ==
    LET done == [k \in 1..Len(progress) |-> rs[progress[k][1]]]
        kept == SelectSeq(done, LAMBDA r : r # None)
    IN  [k \in 1..Len(kept) |-> The(kept[k])]

\* [r for r in results if r is not None]
synthesized_articles(rs) ==
    LET kept == SelectSeq(rs, LAMBDA r : r # None)
    IN  [k \in 1..Len(kept) |-> The(kept[k])]

\* lines 234-240: gather has every task's result
gather_returns ==
    /\ spc = "gathering"
    /\ \A i \in Tasks : task[i] = "done"
    /\ output' = Some(synthesized_articles(results))
    /\ spc' = "returned"
    /\ UNCHANGED <<max_concurrent, groups_arg, url_to_content, sem_value,
                   sem_waiters, task, gen_calls, results, progress, completed_at>>
    /\ UNCHANGED dedupVars

DedupIdle ==
    /\ similarity_threshold = 850
    /\ bm25_weight = 3
    /\ last_embeddings = None
    /\ last_urls = None
    /\ last_cluster_labels = None
    /\ dpc = "idle"
    /\ url_contents = <<>>
    /\ embed_requests = <<>>
    /\ bm25_calls = <<>>
    /\ linkage_calls = 0
    /\ semantic_similarity = None
    /\ bm25_similarity = None
    /\ hybrid_similarity = None
    /\ groups = None
    /\ umap = None

\* ArticleSynthesisService.__init__(openai_api_key, max_concurrent)
SynthInit ==
    /\ max_concurrent \in 1..MaxSlots
    /\ spc = "idle"
    /\ groups_arg = <<>>
    /\ url_to_content = <<>>
    /\ sem_value = 0
    /\ sem_waiters = <<>>
    /\ task = <<>>
    /\ gen_calls = <<>>
    /\ results = <<>>
    /\ progress = <<>>
    /\ completed_at = <<>>
    /\ output = None

SynthNext ==
    \/ \E gs \in GroupLists(MaxGroups) : \E contents \in ContentDicts(gs) :
          synthesize_all_groups(gs, contents)
    \/ \E i \in Tasks : task_starts(i)
    \/ \E i \in Tasks : waiter_resumes(i)
    \/ \E i \in Tasks : \E outcome \in GenOutcomes : create_completes(i, outcome)
    \/ gather_returns

\* a fresh ArticleSynthesisService next to a DeduplicationService never called
SynthStart == DedupIdle /\ SynthInit

\* one synthesize_all_groups run of a fresh ArticleSynthesisService, with a
\* progress callback
SynthSpec == SynthStart /\ [][SynthNext]_vars

\* The runs whose termination is checked: the members of a group all have
\* their text or are all absent, and a generation call raises or answers
\* with a text.
FairContentDicts(gs) ==
    {[u \in UNION {Range(gs[i]) : i \in with_text} |-> SynthText(u)] :
     with_text \in SUBSET (1..Len(gs))}

FairOutcomes == {outcome \in GenOutcomes :
                    outcome.kind = "returns" => outcome.content # None}

FairNext ==
    \/ \E gs \in GroupLists(MaxGroups) : \E contents \in FairContentDicts(gs) :
          synthesize_all_groups(gs, contents)
    \/ \E i \in Tasks : task_starts(i)
    \/ \E i \in Tasks : waiter_resumes(i)
    \/ \E i \in Tasks : \E outcome \in FairOutcomes : create_completes(i, outcome)
    \/ gather_returns

\* The event loop runs every task that is ready (asyncio.gather schedules all
\* of them, and a woken waiter is scheduled by its future), and every issued
\* generation call returns or raises.
SynthFairness ==
    /\ WF_vars(\E i \in Tasks : task_starts(i))
    /\ WF_vars(\E i \in Tasks : waiter_resumes(i))
    /\ WF_vars(\E i \in Tasks : \E outcome \in FairOutcomes : create_completes(i, outcome))
    /\ WF_vars(gather_returns)

\* a synthesize_all_groups run under that scheduling
SynthFairSpec == SynthStart /\ [][FairNext]_vars /\ SynthFairness

-----------------------------------------------------------------------------
(* The records of synthesize_all_groups for texts of every shape *)

\* a line longer than the 200 characters a title keeps
LongLine == [k \in 1..(MaxTitle + 5) |-> "x"]

\* a summary longer than the 300 characters a summary keeps
LongSummary == [k \in 1..(MaxSummary + 5) |-> "y"]

\* document texts: a "Título:" line; short and blank lines before the first
\* line of more than 10 characters; no line of more than 10 characters; a
\* first line of 205 characters; a line of markup only
TitleTexts ==
    {<<"T", "í", "t", "u", "l", "o", ":", " ", "P", "l", "e", "n", "o", " ",
      "m", "u", "n", "i", "c", "i", "p", "a", "l", "\n", "c", "u", "e", "r",
      "p", "o">>,
     <<"c", "o", "r", "t", "o", "\n", "\n", " ", " ", "u", "n", "a", " ",
      "l", "í", "n", "e", "a", " ", "l", "a", "r", "g", "a", " ", "a", "q",
      "u", "í", " ", " ", "\n", "f", "i", "n">>,
     <<"b", "r", "e", "v", "e", "\n", "n", "o", "t", "a">>,
     LongLine \o <<"\n", "c", "u", "e", "r", "p", "o">>,
     <<"#", "#", "#", "#", "#", "#", "#", "#", "#", "#", "#", "\n", "f",
      "i", "n">>}

\* generation responses: a second-level heading before the top-level one; a
\* summary marker without text before one with text; no heading and a
\* marker inside a line; a heading of 205 characters; a summary of 305
ParseTexts ==
    {<<"#", "#", " ", "S", "u", "b", "\n", " ", "#", " ", "O", "b", "r",
      "a", "s", " ", "e", "n", " ", "l", "a", " ", "M", "-", "5", "0", " ",
      "\n", "c", "u", "e", "r", "p", "o", "\n", "#", " ", "O", "t", "r",
      "o">>,
     <<"#", " ", "F", "i", "e", "s", "t", "a", "s", "\n", "*", "*", "R",
      "e", "s", "u", "m", "e", "n", ":", "*", "*", "\n", "*", "*", "S", "u",
      "m", "m", "a", "r", "y", ":", "*", "*", " ", "t", "a", "r", "d", "e",
      "\n", "f", "i", "n">>,
     <<"i", "n", "t", "r", "o", " ", "*", "*", "R", "e", "s", "u", "m", "e",
      "n", ":", "*", "*", " ", "d", "e", "n", "t", "r", "o", "\n", "f", "i",
      "n">>,
     <<"#", " ">> \o LongLine \o <<"\n", "c", "u", "e", "r", "p", "o">>,
     <<"#", " ", "M", "e", "t", "r", "o", "\n", "*", "*", "S", "u", "m",
      "m", "a", "r", "y", ":", "*", "*", " ">> \o LongSummary}

RecordGroupLists == {gs \in GroupLists(MaxGroups - 1) : Len(gs) > 0}

SingleUrls(gs) == UNION {Range(gs[i]) : i \in {j \in 1..Len(gs) : Len(gs[j]) = 1}}

\* every url has a text: the url of a single-source group any of TitleTexts
RecordContentDicts(gs) ==
    {[u \in UrlsOf(gs) |-> IF u \in SingleUrls(gs) THEN t[u] ELSE SynthText(u)] :
     t \in [SingleUrls(gs) -> TitleTexts]}

RecordOutcomes ==
    GenOutcomes \cup {[kind |-> "returns", content |-> Some(t)] : t \in ParseTexts}

RecordsNext ==
    \/ \E gs \in RecordGroupLists : \E contents \in RecordContentDicts(gs) :
          synthesize_all_groups(gs, contents)
    \/ \E i \in Tasks : task_starts(i)
    \/ \E i \in Tasks : waiter_resumes(i)
    \/ \E i \in Tasks : \E outcome \in RecordOutcomes : create_completes(i, outcome)
    \/ gather_returns

\* one synthesize_all_groups run over documents and responses of every shape
RecordsSpec == SynthStart /\ [][RecordsNext]_vars

-----------------------------------------------------------------------------
(* Properties of group_similar_articles, checked under Spec *)

\* the ids of the call's argument
InputIds == {url_contents[i][1] : i \in 1..Len(url_contents)}

\* the documents of the call's argument that have a text, in dict order
DocsWithText == SelectSeq(url_contents, LAMBDA p : Len(p[2]) > 0)

\* C1, as claimed: the groups group_similar_articles returns are pairwise
\* disjoint and their union is the set of input ids, whatever mix of empty and
\* non-empty texts the input holds. The code drops the documents without text
\* as soon as one document has text.
C1_GroupsPartitionInput ==
    dpc = "returned" =>
        LET gs == The(groups)
        IN  /\ UNION {Range(gs[g]) : g \in 1..Len(gs)} = InputIds
            /\ \A g, h \in 1..Len(gs) :
                  g # h => Range(gs[g]) \cap Range(gs[h]) = {}
            /\ \A g \in 1..Len(gs) : Cardinality(Range(gs[g])) = Len(gs[g])

\* C7: when the embedding call fails, group_similar_articles raises: it
\* returns no group list, computes no lexical similarity and no clustering,
\* and issues no second embedding request.
C7_EmbeddingFailureIsFatal ==
    (\E k \in 1..Len(embed_requests) : embed_requests[k].outcome = "error") =>
        /\ dpc = "raised"
        /\ groups = None
        /\ Len(embed_requests) = 1
        /\ bm25_calls = <<>>
        /\ linkage_calls = 0
        /\ hybrid_similarity = None

C7_Witness ==
    /\ dpc = "raised"
    /\ Len(embed_requests) = 1
    /\ embed_requests[1].outcome = "error"
    /\ Len(url_contents) = 3

\* C8: a call issues exactly one embedding request, holding the texts (cut
\* to 8000 characters) of all documents with text in input order, when at
\* least two documents have text; otherwise it issues none and clusters nothing.
C8_OneBatchedEmbeddingRequest ==
    dpc # "idle" =>
        IF Len(DocsWithText) >= 2
        THEN /\ Len(embed_requests) = 1
             /\ Len(embed_requests[1].input) = Len(DocsWithText)
             /\ \A i \in 1..Len(DocsWithText) :
                   LET text == DocsWithText[i][2]
                   IN  embed_requests[1].input[i]
                         = SubSeq(text, 1, IF Len(text) < 8000 THEN Len(text) ELSE 8000)
        ELSE /\ embed_requests = <<>>
             /\ bm25_calls = <<>>
             /\ linkage_calls = 0

C8_Witness ==
    /\ dpc = "returned"
    /\ Len(url_contents) = 3
    /\ Len(DocsWithText) = 2
    /\ Len(url_contents[2][2]) = 0
    /\ Len(embed_requests) = 1
    /\ linkage_calls = 1

\* C9, as claimed: every input document whose text is empty is returned as a
\* singleton group of its own, whatever the other documents are, and its text
\* reaches neither the embedding call nor the lexical estimator. The first
\* half fails with C1: such a document is dropped when another one has text.
C9_EmptyTextIsOwnSingleton ==
    dpc = "returned" =>
        \A i \in 1..Len(url_contents) :
            Len(url_contents[i][2]) = 0 =>
                /\ \E g \in 1..Len(The(groups)) :
                      The(groups)[g] = <<url_contents[i][1]>>
                /\ \A r \in 1..Len(embed_requests) :
                      \A k \in 1..Len(embed_requests[r].input) :
                         Len(embed_requests[r].input[k]) > 0
                /\ \A c \in 1..Len(bm25_calls) :
                      \A k \in 1..Len(bm25_calls[c]) : Len(bm25_calls[c][k]) > 0

\* C10: on an empty input the call returns the empty group list, and on an
\* input of exactly one document, with text, it returns exactly one group,
\* holding that document.
C10_DegenerateInputs ==
    dpc # "idle" =>
        /\ Len(url_contents) = 0 => dpc = "returned" /\ groups = Some(<<>>)
        /\ (Len(url_contents) = 1 /\ Len(url_contents[1][2]) > 0) =>
              /\ dpc = "returned"
              /\ groups = Some(<< <<url_contents[1][1]>> >>)

C10_Witness ==
    /\ dpc = "returned"
    /\ Len(url_contents) = 1
    /\ Len(url_contents[1][2]) > 0
    /\ Len(The(groups)) = 1

-----------------------------------------------------------------------------
(* Properties of synthesize_all_groups, checked under SynthSpec *)

\* the generation calls of group i that are in flight
Calling == {i \in 1..Len(groups_arg) : task[i] = "calling"}

\* the texts of the members of group i that have one, in group order
MemberTexts(i) ==
    LET with_text == SelectSeq(groups_arg[i],
            LAMBDA u : u \in DOMAIN url_to_content /\ Len(url_to_content[u]) > 0)
    IN  [k \in 1..Len(with_text) |-> url_to_content[with_text[k]]]

\* the slot of group i has been taken and its body has run up to the call
Reached(i) == task[i] \in {"calling", "done"}

\* the generation call of group i raised, or its response could not be parsed
CallFailed(i) ==
    /\ Len(gen_calls[i]) > 0
    /\ Len(gen_calls[i][1].outcome) > 0
    /\ \/ The(gen_calls[i][1].outcome).kind = "raises"
       \/ Len(The(gen_calls[i][1].outcome).content) = 0

CallSucceeded(i) ==
    /\ Len(gen_calls[i]) > 0
    /\ Len(gen_calls[i][1].outcome) > 0
    /\ ~CallFailed(i)

\* C2, as claimed: synthesize_all_groups returns exactly one record per group,
\* every group exactly once, also when a call fails or the texts of a group's
\* members are empty or missing. The code leaves out every group none of
\* whose members has a text.
C2_OneRecordPerGroup ==
    spc = "returned" =>
        /\ Len(The(output)) = Len(groups_arg)
        /\ \A i \in 1..Len(groups_arg) :
              Cardinality({k \in 1..Len(The(output)) :
                              The(output)[k].source_urls = groups_arg[i]}) = 1

\* C3: the generation calls in flight never exceed max_concurrent.
C3_InFlightBounded == Cardinality(Calling) <= max_concurrent

C3_Witness ==
    /\ Cardinality(Calling) = max_concurrent
    /\ Len(groups_arg) > max_concurrent
    /\ \E i \in 1..Len(groups_arg) : task[i] = "waiting"
    /\ \E i \in 1..Len(groups_arg) : task[i] = "done" /\ Len(gen_calls[i]) = 1

\* C4, as claimed: the values handed to progress_callback never decrease, and
\* each is the number of groups finished so far over the number of groups.
\* The code reports (index + 1) / total, in completion order.
C4_ProgressIsCompletedOverTotal ==
    /\ \A k \in 1..Len(progress) :
          /\ progress[k][2] = Len(groups_arg)
          /\ progress[k][1] = completed_at[k]
    /\ \A k \in 1..(Len(progress) - 1) :
          progress[k][1] * progress[k + 1][2] <= progress[k + 1][1] * progress[k][2]

\* C5, as claimed: a group of two or more source ids issues exactly one
\* generation call, whose request holds the text of every member; a singleton
\* group issues none.
C5_OneCallPerMultiGroup ==
    \A i \in 1..Len(groups_arg) :
        Reached(i) =>
            IF Len(groups_arg[i]) >= 2
            THEN /\ Len(gen_calls[i]) = 1
                 /\ \A u \in Range(groups_arg[i]) :
                       /\ u \in DOMAIN url_to_content
                       /\ \E k \in 1..Len(gen_calls[i][1].request.prompt.sources) :
                             gen_calls[i][1].request.prompt.sources[k].content
                               = url_to_content[u]
            ELSE gen_calls[i] = <<>>

\* C5, amended: a group of two or more source ids of which at least two have
\* a non-empty text issues exactly one generation call, whose request holds
\* exactly the non-empty texts of its members, in group order; every other
\* group issues none.
C5_OneCallPerGroupWithTwoTexts ==
    \A i \in 1..Len(groups_arg) :
        IF Reached(i) /\ Len(groups_arg[i]) >= 2 /\ Len(MemberTexts(i)) >= 2
        THEN /\ Len(gen_calls[i]) = 1
             /\ gen_calls[i][1].request.prompt.count = Len(MemberTexts(i))
             /\ Len(gen_calls[i][1].request.prompt.sources) = Len(MemberTexts(i))
             /\ \A k \in 1..Len(MemberTexts(i)) :
                   /\ gen_calls[i][1].request.prompt.sources[k].label = k
                   /\ gen_calls[i][1].request.prompt.sources[k].content
                        = MemberTexts(i)[k]
        ELSE gen_calls[i] = <<>>

C5_Witness ==
    /\ spc = "returned"
    /\ \E i \in 1..Len(groups_arg) :
          Len(groups_arg[i]) = 2 /\ Len(MemberTexts(i)) = 2 /\ Len(gen_calls[i]) = 1
    /\ \E i \in 1..Len(groups_arg) :
          Len(groups_arg[i]) = 2 /\ Len(MemberTexts(i)) = 1 /\ gen_calls[i] = <<>>
    /\ \E i \in 1..Len(groups_arg) :
          Len(groups_arg[i]) = 1 /\ gen_calls[i] = <<>>

\* what the failed call of group i reported
FailureMessage(i) ==
    IF The(gen_calls[i][1].outcome).kind = "raises"
    THEN The(gen_calls[i][1].outcome).e
    ELSE NoneTypeError

\* the record group i yields by itself when its call does not fail
OwnRecord(i) ==
    IF Len(gen_calls[i]) > 0
    THEN Some(with_group(
             parse_generated_article(The(The(gen_calls[i][1].outcome).content)),
             groups_arg[i]))
    ELSE IF Len(MemberTexts(i)) > 0
    THEN Some(with_group(extract_from_single_article(MemberTexts(i)[1]),
                         groups_arg[i]))
    ELSE None

\* C6: a group whose generation call raises, or whose response cannot be
\* parsed, yields a record titled 'Error al generar artículo' whose content
\* reports the error and which carries group_size and source_urls; every
\* other group yields the record it yields by itself, and the run returns
\* them all.
C6_FailureScopedToItsGroup ==
    /\ \A i \in 1..Len(groups_arg) :
          (task[i] = "done" /\ CallFailed(i)) =>
              results[i] = Some([title |-> ErrorTitle,
                                 content |-> ErrorPrefix \o FailureMessage(i),
                                 summary |-> <<>>,
                                 group_size |-> Len(groups_arg[i]),
                                 source_urls |-> groups_arg[i]])
    /\ \A j \in 1..Len(groups_arg) :
          (task[j] = "done" /\ ~CallFailed(j)) => results[j] = OwnRecord(j)
    /\ spc = "returned" =>
          \A i \in 1..Len(groups_arg) :
              Len(results[i]) > 0 =>
                  \E k \in 1..Len(The(output)) : The(output)[k] = The(results[i])

C6_Witness ==
    /\ spc = "returned"
    /\ Len(The(output)) = 3
    /\ \E i \in 1..Len(groups_arg) :
          /\ CallFailed(i)
          /\ The(gen_calls[i][1].outcome).kind = "raises"
          /\ The(results[i]).title = ErrorTitle
    /\ \E i \in 1..Len(groups_arg) : CallSucceeded(i)
    /\ \E i \in 1..Len(groups_arg) : Len(groups_arg[i]) = 1

-----------------------------------------------------------------------------
(* Properties of the grouping engine, checked under Spec *)

\* the thresholds the groupings of one hybrid matrix are compared at (x1000)
ThresholdGrid == {300, 450, 600, 750, 850, 950}

\* the call clustered: it has a hybrid matrix and returned groups
Clustered == dpc = "returned" /\ Len(hybrid_similarity) > 0

\* the returned groups as sets of document indices
ReturnedGrouping ==
    {{i \in 1..Len(The(last_urls)) : The(last_urls)[i] \in Range(The(groups)[g])} :
        g \in 1..Len(The(groups))}

\* the grouping of the call's hybrid matrix at threshold t: what the call
\* returned at its own threshold, and the cut of the same matrix elsewhere
GroupingAt(t) ==
    IF t = similarity_threshold THEN ReturnedGrouping
    ELSE cluster_labels(The(hybrid_similarity), t)

SameGroupAt(t, i, j) == \E A \in GroupingAt(t) : i \in A /\ j \in A

\* the groupings at every threshold of the grid
Groupings == [t \in ThresholdGrid |-> GroupingAt(t)]

Together(G, i, j) == \E A \in G : i \in A /\ j \in A

\* C11, as claimed: for thresholds t1 < t2 and the same hybrid matrix, two
\* documents in the same group at t1 are in the same group at t2.
C11_RaisingNeverSplits ==
    Clustered =>
        \A at \in {Groupings} :
            \A t1, t2 \in ThresholdGrid :
                t1 < t2 =>
                    \A i, j \in DOMAIN The(hybrid_similarity) :
                        Together(at[t1], i, j) => Together(at[t2], i, j)

\* C11, amended: for thresholds t1 < t2 and the same hybrid matrix, two
\* documents in different groups at t1 are in different groups at t2: the
\* grouping at the higher threshold never merges a pair the lower one split.
C11_RaisingNeverMerges ==
    Clustered =>
        \A at \in {Groupings} :
            \A t1, t2 \in ThresholdGrid :
                t1 < t2 =>
                    \A i, j \in DOMAIN The(hybrid_similarity) :
                        ~Together(at[t1], i, j) => ~Together(at[t2], i, j)

C11_Witness ==
    /\ Clustered
    /\ Len(The(last_urls)) = 3
    /\ similarity_threshold = 750
    /\ SameGroupAt(750, 1, 2)
    /\ ~SameGroupAt(850, 1, 2)
    /\ ~SameGroupAt(750, 1, 3)
    /\ ~SameGroupAt(850, 1, 3)

\* C12: for thresholds t1 < t2 and the same hybrid matrix, the partition at
\* t2 refines the partition at t1: every group at t2 lies within one group at t1.
C12_HigherThresholdRefines ==
    Clustered =>
        \A at \in {Groupings} :
            \A t1, t2 \in ThresholdGrid :
                t1 < t2 =>
                    \A A \in at[t2] : \E B \in at[t1] : A \subseteq B

C12_Witness ==
    /\ Clustered
    /\ Len(The(last_urls)) = 3
    /\ similarity_threshold = 850
    /\ Cardinality(GroupingAt(600)) = 1
    /\ Cardinality(GroupingAt(750)) = 2
    /\ Cardinality(GroupingAt(850)) = 3

-----------------------------------------------------------------------------
(* Further properties of synthesize_all_groups, checked under SynthSpec *)

\* the first generation call of group i raised
FirstCallRaised(i) ==
    /\ Len(gen_calls[i]) > 0
    /\ Len(gen_calls[i][1].outcome) > 0
    /\ The(gen_calls[i][1].outcome).kind = "raises"

\* C13, as claimed: a generation call that fails is retried, and the group
\* gets its degraded record only after the retries are exhausted; one failure
\* followed by a success gives a normal record. The code makes one call and
\* turns its failure into the degraded record at once.
C13_FailedCallIsRetried ==
    \A i \in 1..Len(groups_arg) :
        (task[i] = "done" /\ FirstCallRaised(i)) => Len(gen_calls[i]) >= 2

\* C14, as claimed: a group of one source never waits for the generation call
\* of another group: its task is never queued on the semaphore. The code
\* takes a slot of the semaphore for every group, whatever its size.
C14_SingleNeverWaits ==
    \A i \in 1..Len(groups_arg) :
        Len(groups_arg[i]) = 1 => task[i] \notin {"waiting", "woken"}

\* C16: every record synthesize_all_groups returns has group_size equal to
\* the length of source_urls, and source_urls is the id list of the group the
\* record was made from, the members without text included.
C16_RecordNamesItsGroup ==
    /\ \A i \in 1..Len(groups_arg) :
          Len(results[i]) > 0 =>
              /\ The(results[i]).source_urls = groups_arg[i]
              /\ The(results[i]).group_size = Len(The(results[i]).source_urls)
    /\ spc = "returned" =>
          \A k \in 1..Len(The(output)) :
              /\ The(output)[k].group_size = Len(The(output)[k].source_urls)
              /\ \E i \in 1..Len(groups_arg) :
                    /\ Len(results[i]) > 0
                    /\ The(output)[k] = The(results[i])
                    /\ The(output)[k].source_urls = groups_arg[i]

C16_Witness ==
    /\ spc = "returned"
    /\ \E k \in 1..Len(The(output)) :
          /\ The(output)[k].group_size = 2
          /\ \E u \in Range(The(output)[k].source_urls) :
                u \in DOMAIN url_to_content /\ Len(url_to_content[u]) = 0
    /\ \E k \in 1..Len(The(output)) :
          /\ The(output)[k].group_size = 2
          /\ The(output)[k].title = ErrorTitle
    /\ \E k \in 1..Len(The(output)) : The(output)[k].group_size = 1

-----------------------------------------------------------------------------
(* Properties of the lexical estimator and the combiner, checked under Spec *)

\* C15, as claimed: on two or more non-empty texts _compute_bm25_similarity
\* does not raise and returns an N x N matrix, also when the texts are
\* identical or the document-frequency cap leaves no term. The code raises
\* the ValueError of fit_transform when the vocabulary is empty.
C15_LexicalEstimatorNeverRaises ==
    \A c \in 1..Len(bm25_calls) :
        /\ dpc = "returned"
        /\ Len(bm25_similarity) > 0
        /\ Len(The(bm25_similarity)) = Len(bm25_calls[c])
        /\ \A i \in 1..Len(bm25_calls[c]) :
              Len(The(bm25_similarity)[i]) = Len(bm25_calls[c])

\* the urls, the matrices and the weights of a call that combined them
Combined == Len(hybrid_similarity) > 0

Docs == 1..Len(The(last_urls))

Domain(i) == netloc(The(last_urls)[i])

Lexical == The(bm25_similarity)
Semantic == The(semantic_similarity)
Hybrid == The(hybrid_similarity)

\* C17: the hybrid matrix is symmetric, as the lexical and the semantic
\* matrix and the adaptive weights are, whatever the documents' domains.
C17_HybridSymmetric ==
    Combined =>
        \A i, j \in Docs :
            /\ Lexical[i][j] = Lexical[j][i]
            /\ Semantic[i][j] = Semantic[j][i]
            /\ adaptive_weights(The(last_urls), bm25_weight)[i][j]
                 = adaptive_weights(The(last_urls), bm25_weight)[j][i]
            /\ Hybrid[i][j] = Hybrid[j][i]

C17_Witness ==
    /\ Combined
    /\ Len(The(last_urls)) = 3
    /\ Domain(1) = "boadilladigital.es"
    /\ Domain(3) = "boadilladigital.es"
    /\ Domain(2) = "soydemadrid.com"
    /\ Lexical[1][3] = 75
    /\ Semantic[1][3] = 60
    /\ Hybrid[3][1] = 6 * 75 + 4 * 60
    /\ Hybrid[2][1] = 3 * Lexical[1][2] + 7 * Semantic[1][2]

\* the weight the claim gives cell (i, j)
SameAmbiguousDomain(i, j) ==
    Domain(i) = Domain(j) /\ Domain(i) \in problematic_domains

Blend(w, i, j) == w * Lexical[i][j] + (10 - w) * Semantic[i][j]

\* C18, as claimed: in every cell (i, j), the diagonal included, the hybrid
\* similarity is w * Lexical + (1 - w) * Semantic with w = 0.6 when the two
\* documents have the same domain and it is a problematic one, and the base
\* weight otherwise.
C18_EveryCellBlended ==
    Combined =>
        \A i, j \in Docs :
            Hybrid[i][j] = Blend(IF SameAmbiguousDomain(i, j)
                                 THEN AmbiguousWeight ELSE bm25_weight, i, j)

\* C18, amended: in every cell (i, j) with i # j the hybrid similarity is
\* w * Lexical + (1 - w) * Semantic with w = 0.6 when the two documents have
\* the same domain and it is a problematic one, and the base weight
\* otherwise; on the diagonal w is the base weight, whatever the domain.
C18_OffDiagonalCellsBlended ==
    Combined =>
        \A i, j \in Docs :
            Hybrid[i][j] = Blend(IF i # j /\ SameAmbiguousDomain(i, j)
                                 THEN AmbiguousWeight ELSE bm25_weight, i, j)

C18_Witness ==
    /\ Combined
    /\ Len(The(last_urls)) = 3
    /\ Domain(1) = "boadilladigital.es"
    /\ Domain(2) = "boadilladigital.es"
    /\ Domain(3) = "www.soydemadrid.com"
    /\ Lexical[1][1] = 0
    /\ Hybrid[1][1] = 700
    /\ Lexical[2][3] = 75
    /\ Semantic[2][3] = 60
    /\ Hybrid[2][3] = 645
    /\ Semantic[1][2] = 60
    /\ Hybrid[1][2] = 240

\* the adaptive weight matrix of the call
Weights == adaptive_weights(The(last_urls), bm25_weight)

\* C19, as claimed: the weight is 0.6 in every cell whose two documents both
\* have a problematic domain, the same one or not, and the base weight
\* elsewhere; and 0.6 exceeds the base weight.
C19_ElevatedForAnyTwoAmbiguous ==
    Combined =>
        /\ \A i, j \in Docs :
              Weights[i][j] = IF /\ Domain(i) \in problematic_domains
                                 /\ Domain(j) \in problematic_domains
                              THEN AmbiguousWeight ELSE bm25_weight
        /\ AmbiguousWeight > bm25_weight

\* C19, amended: the weight is 0.6 in every cell off the diagonal whose two
\* documents have the same domain, a problematic one, and the base weight
\* elsewhere, also between two different problematic domains; and 0.6 exceeds
\* the base weight 0.3 the service is configured with.
C19_ElevatedForSameAmbiguous ==
    Combined =>
        /\ {c \in Docs \X Docs : Weights[c[1]][c[2]] = AmbiguousWeight}
             = {c \in Docs \X Docs : c[1] # c[2] /\ SameAmbiguousDomain(c[1], c[2])}
        /\ \A i, j \in Docs : Weights[i][j] \in {AmbiguousWeight, bm25_weight}
        /\ AmbiguousWeight > bm25_weight

C19_Witness ==
    /\ Combined
    /\ Len(The(last_urls)) = 3
    /\ Domain(1) = "soydemadrid.com"
    /\ Domain(2) = "boadilladigital.es"
    /\ Domain(3) = "boadilladigital.es"
    /\ Weights[2][3] = AmbiguousWeight
    /\ Weights[1][2] = bm25_weight
    /\ Weights[2][2] = bm25_weight

-----------------------------------------------------------------------------
(* The grouping of two and of three documents, checked under Spec *)

\* D = clip(1 - H, 0, 2) off the diagonal (x1000)
Dist(i, j) ==
    LET d == 1000 - The(hybrid_similarity)[i][j]
    IN  IF d < 0 THEN 0 ELSE IF d > 2000 THEN 2000 ELSE d

\* the cut, 1 - threshold (x1000)
Cut == 1000 - similarity_threshold

\* the two documents average linkage merges first: the closest two, and of
\* equally close ones those of the lowest indices
ClosestPair ==
    LET n == Len(The(last_urls))
    IN  CHOOSE p \in Pairs(n) :
            \A q \in Pairs(n) \ {p} :
                \/ Dist(p[1], p[2]) < Dist(q[1], q[2])
                \/ /\ Dist(p[1], p[2]) = Dist(q[1], q[2])
                   /\ p[1] < q[1] \/ (p[1] = q[1] /\ p[2] < q[2])

\* twice the height at which the clusters of documents i and j merge, among
\* two or three documents: the distance of the closest pair for that pair,
\* and for a pair with the third document the sum of its distances to both
TwiceMergeHeight(i, j) ==
    IF {i, j} = {ClosestPair[1], ClosestPair[2]}
    THEN 2 * Dist(i, j)
    ELSE LET c == CHOOSE k \in {i, j} : k \notin {ClosestPair[1], ClosestPair[2]}
         IN  Dist(ClosestPair[1], c) + Dist(ClosestPair[2], c)

\* C20: for two or more documents with text the returned groups are the
\* average-linkage partition of D cut at 1 - threshold: two documents share
\* a group iff their clusters merge at a height of at most 1 - threshold; two
\* documents alone are grouped iff H[0, 1] >= threshold.
C20_GroupsAreAverageLinkageCut ==
    Clustered =>
        /\ linkage_calls = 1
        /\ UNION ReturnedGrouping = 1..Len(The(last_urls))
        /\ \A p \in Pairs(Len(The(last_urls))) :
              (\E A \in ReturnedGrouping : p[1] \in A /\ p[2] \in A)
                  <=> TwiceMergeHeight(p[1], p[2]) <= 2 * Cut
        /\ Len(The(last_urls)) = 2 =>
              (Len(The(groups)) = 1
                  <=> The(hybrid_similarity)[1][2] >= similarity_threshold)

C20_Witness ==
    /\ Clustered
    /\ Len(The(last_urls)) = 3
    /\ Len(The(groups)) = 1
    /\ ClosestPair = <<1, 3>>
    /\ Dist(1, 3) > 0
    /\ Dist(1, 2) <= Cut
    /\ Dist(2, 3) > Cut

-----------------------------------------------------------------------------
(* Properties of the records, checked under RecordsSpec *)

\* the record of group i, once the group is done and has one
RecordOf(i) == The(results[i])

SingleSource(i) == Len(groups_arg[i]) = 1 /\ task[i] = "done" /\ results[i] # None

\* C21: the record of every single-source group has the document's text
\* unchanged as content, a title of at most 200 characters, and a summary
\* equal to its title, whatever the document's text is.
C21_SingleRecord ==
    \A i \in Tasks :
        SingleSource(i) =>
            /\ RecordOf(i).content = url_to_content[groups_arg[i][1]]
            /\ Len(RecordOf(i).title) <= MaxTitle
            /\ RecordOf(i).summary = RecordOf(i).title


\* the text of the response to the generation call of group i
Response(i) == The(The(gen_calls[i][1].outcome).content)

Parsed(i) == task[i] = "done" /\ CallSucceeded(i)

\* the text after the second "**" of a summary-marker line
MarkerText(line) ==
    LET parts == split(line, <<"*", "*">>, 2)
    IN  strip(parts[Len(parts)])

\* C22: in the record parsed from a generation response, the first line that
\* starts with '#' and not with '##' gives the title, cut to 200 characters,
\* and the text after that line is the content; without such a line the
\* title is "Artículo Sintetizado" and the content is the whole response;
\* the summary is the text of the first summary-marker line when that line
\* exists and its text is not empty, and otherwise equals the record's title.
C22_ParsedRecord ==
    \A i \in Tasks :
        Parsed(i) =>
            LET lines == split(Response(i), <<"\n">>, -1)
                h == heading_index(lines, 1)
                m == marker_index(lines, 1)
                text == IF m = 0 THEN <<>> ELSE MarkerText(lines[m])
            IN  /\ h # 0 =>
                     /\ RecordOf(i).title =
                          Slice(strip(replace(strip(lines[h]), <<"#">>, <<>>)), MaxTitle)
                     /\ RecordOf(i).content =
                          strip(join(Tail_from(lines, h), <<"\n">>))
                /\ h = 0 =>
                     /\ RecordOf(i).title = DefaultTitle
                     /\ RecordOf(i).content = Response(i)
                /\ RecordOf(i).summary =
                     IF Truthy(text) THEN text ELSE RecordOf(i).title

-----------------------------------------------------------------------------
(* Properties of the run's order, progress and termination, checked under
   SynthSpec and SynthFairSpec *)

\* the position, in the input list, of the group a record names
GroupIndex(record) == CHOOSE i \in Tasks : groups_arg[i] = record.source_urls

\* C23: the records synthesize_all_groups returns are in the order of their
\* groups in the input list, whatever the order in which the groups complete.
C23_OutputInGroupOrder ==
    spc = "returned" =>
        \A k, l \in 1..Len(The(output)) :
            k < l => GroupIndex(The(output)[k]) < GroupIndex(The(output)[l])

\* a returned run in which a later group completed before an earlier one and
\* both have a record
C23_Witness ==
    /\ spc = "returned"
    /\ \E k, l \in 1..Len(progress) :
          /\ k < l
          /\ progress[k][1] > progress[l][1]
          /\ results[progress[k][1]] # None
          /\ results[progress[l][1]] # None
          /\ CallSucceeded(progress[l][1])


\* every slot of the limiter is free and nobody waits for one
AllSlotsFree == sem_value = max_concurrent /\ first_waiting(task, sem_waiters) = 0

\* C24: a run that has started eventually returns, with every group done
\* (each one got a slot and completed) and every slot given back, whether the
\* group's call succeeded, failed or was not needed and whether the group has
\* a record or not; no group starves and the run does not deadlock.
C24_RunTerminates ==
    (spc = "gathering") ~>
        (/\ spc = "returned"
         /\ \A i \in Tasks : task[i] = "done"
         /\ AllSlotsFree)

\* a returned run of more groups than slots in which one call failed, one
\* succeeded and one group has no record, all slots free again
C24_Witness ==
    /\ spc = "returned"
    /\ Len(groups_arg) > max_concurrent
    /\ \E i \in Tasks : CallFailed(i)
    /\ \E i \in Tasks : CallSucceeded(i)
    /\ \E i \in Tasks : results[i] = None
    /\ \A i \in Tasks : task[i] = "done"
    /\ AllSlotsFree


\* the invocations of the progress callback made for group i
Invocations(i) == {k \in 1..Len(progress) : progress[k][1] = i}

\* C25: the progress callback is invoked exactly once for every group that
\* is done and for no other, with the value (i+1)/len(groups) for the group
\* of 0-based index i, so len(groups) times in a returned run; groups
\* without a record and groups whose call failed are no exception.
C25_OneCallbackPerGroup ==
    /\ \A i \in Tasks :
          Cardinality(Invocations(i)) = IF task[i] = "done" THEN 1 ELSE 0
    /\ \A k \in 1..Len(progress) :
          /\ progress[k][1] \in Tasks
          /\ progress[k][2] = Len(groups_arg)
    /\ spc = "returned" => Len(progress) = Len(groups_arg)

\* a returned run of several groups, one without a record and one whose
\* call failed, each with its invocation
C25_Witness ==
    /\ spc = "returned"
    /\ Len(groups_arg) > 2
    /\ \E i \in Tasks : results[i] = None /\ Cardinality(Invocations(i)) = 1
    /\ \E i \in Tasks : CallFailed(i) /\ Cardinality(Invocations(i)) = 1

-----------------------------------------------------------------------------
(* Properties of calls with two documents and of the configured sources,
   checked under Spec and DashboardSpec *)

\* the call went through with exactly two documents that have a text
TwoDocuments == dpc = "returned" /\ Combined /\ Len(DocsWithText) = 2

\* the weight the combiner applies to the two documents
AppliedWeight ==
    IF SameAmbiguousDomain(1, 2) THEN AmbiguousWeight ELSE bm25_weight

\* the terms the two documents share
SharedTerms ==
    LET docs == TermSeqs(contents_of(DocsWithText))
    IN  Range(docs[1]) \cap Range(docs[2])

\* C26: when exactly two documents have a text, their lexical similarity is
\* 0 (every term they share is cut by the document-frequency cap), their
\* hybrid similarity is at most 1 - w, and with a threshold above 1 - w they
\* are returned as two groups, however similar the texts are.
C26_TwoDocumentsNeverMerge ==
    TwoDocuments =>
        /\ Lexical[1][2] = 0
        /\ Lexical[2][1] = 0
        /\ Hybrid[1][2] <= (10 - AppliedWeight) * 100
        /\ similarity_threshold > (10 - AppliedWeight) * 100 =>
              Len(The(groups)) = 2

\* two documents that share a term and are semantically identical, returned
\* as two groups
C26_Witness ==
    /\ TwoDocuments
    /\ SharedTerms # {}
    /\ Semantic[1][2] = 100
    /\ Lexical[1][2] = 0
    /\ Len(The(groups)) = 2


\* the host of the soydemadrid source of NEWS_SOURCES
ConfiguredHost == "www.soydemadrid.com"

\* C27: two distinct documents whose urls are both on www.soydemadrid.com
\* are blended with the elevated lexical weight 0.6.
C27_ConfiguredHostIsAmbiguous ==
    (dpc = "returned" /\ Combined) =>
        \A i, j \in Docs :
            (i # j /\ Domain(i) = ConfiguredHost /\ Domain(j) = ConfiguredHost) =>
                Hybrid[i][j] = Blend(AmbiguousWeight, i, j)

-----------------------------------------------------------------------------
(* Properties of the instance's fields over several calls, checked under
   SessionSpec *)

\* no group_similar_articles call on the instance has got past the
\* combination of the similarities
NeverCombined == linkage_calls = 0

\* the call in hand ended without getting there: through a short-circuit, or
\* with the error of the embedding call or of the lexical estimator
EndedEarly == dpc \in {"returned", "raised"} /\ ~Combined

\* C28: a get_umap_visualization_data call raises ValueError exactly when no
\* earlier group_similar_articles call on the instance got past the
\* combination of the similarities; calls that returned through a
\* short-circuit or failed in the embedding call do not count.
C28_UmapRaisesUntilFullRun ==
    [][(umap' # umap /\ umap' # None) =>
          (The(umap').raises <=> NeverCombined)]_vars

\* the method raises after a call that failed in the embedding call
C28_Witness ==
    /\ dpc = "raised"
    /\ embed_requests[Len(embed_requests)].outcome = "error"
    /\ umap # None
    /\ The(umap).raises


LastFields == <<last_embeddings, last_urls, last_cluster_labels>>

\* the urls of the documents with text of the call in hand
CallUrls == urls_of(valid_pairs(url_contents))

\* C29: a group_similar_articles call that returns through a short-circuit,
\* or that raises in the embedding call or in the lexical estimator, leaves
\* last_embeddings, last_urls and last_cluster_labels as they were, so that
\* afterwards they are those of the previous full run.
C29_EarlyEndKeepsLastFields ==
    [][(dpc \in {"idle", "embedding"} /\ EndedEarly') =>
          LastFields' = LastFields]_vars

\* after a full run, a call on other documents that ended early: the fields
\* are set and name the documents of the earlier run
C29_Witness ==
    /\ EndedEarly
    /\ Truthy(url_contents)
    /\ linkage_calls > 0
    /\ last_urls # None
    /\ The(last_urls) # CallUrls
    /\ Len(The(last_cluster_labels)) = Len(The(last_urls))


LabelsSet == last_cluster_labels # None

\* the three fields have one entry per document
SameLength ==
    /\ last_urls # None
    /\ last_embeddings # None
    /\ Len(The(last_cluster_labels)) = Len(The(last_urls))
    /\ The(last_embeddings).vectors = Len(The(last_urls))

\* every label is the position, in the group list the call returns, of the
\* group that holds the document's url
LabelsNameGroups ==
    /\ LabelsSet
    /\ groups # None
    /\ \A k \in 1..Len(The(last_urls)) :
          /\ The(last_cluster_labels)[k] \in 1..Len(The(groups))
          /\ The(last_urls)[k] \in Range(The(groups)[The(last_cluster_labels)[k]])

\* C30: whenever last_cluster_labels is set, last_urls, last_embeddings and
\* last_cluster_labels have the same length, and the call that sets the
\* fields sets each label to the 1-based position, in the group list it
\* returns, of the group containing the url at the same index.
C30_LabelsMatchReturnedGroups ==
    /\ [](LabelsSet => SameLength)
    /\ [][LastFields' # LastFields => (SameLength' /\ LabelsNameGroups')]_vars

\* the second full run on the instance put the first and the third document
\* in one group
C30_Witness ==
    /\ dpc = "returned"
    /\ Combined
    /\ linkage_calls = 2
    /\ LabelsSet
    /\ The(last_cluster_labels) = <<1, 2, 1>>
    /\ Len(The(groups)) = 2

====
